---- MODULE Spec2Model ----
(***************************************************************************)
(* Model of the neuro-trail backend: the plugin registry (PluginManager),  *)
(* the ChromaDB vector-store plugin, the Ollama embedding plugin and the   *)
(* document ingestion service.                                             *)
(*                                                                         *)
(* The backend runs on one asyncio event loop: coroutines interleave only  *)
(* at an await that really suspends (a plugin's initialize or shutdown     *)
(* hook, a network call).  Every action below is the code between two such *)
(* suspension points.                                                      *)
(***************************************************************************)
EXTENDS Integers, Sequences, FiniteSets, TLC

\* ------------------------------------------------------------------------
\* Bounds
\* ------------------------------------------------------------------------
NumTasks == 2
MaxInst == 2
MaxBatch == 2
MaxColl == 2
MaxTexts == 3
MaxTopK == 2
MaxLen == 6
MaxChunkSize == 5
MaxOverlap == 2
MaxBulkBatches == 2
MaxScans == 2
MaxGenBatches == 2

Tasks == 1..NumTasks

\* ------------------------------------------------------------------------
\* Plugin registry: keys
\* ------------------------------------------------------------------------
\* Plugin classes found on disk, keyed by (directory name, plugin_name).
PluginFiles == { <<"vector_stores", "chroma">> }

\* A key no file on disk provides.
UnknownKey == <<"vector_store", "chroma">>

Keys == PluginFiles \cup {UnknownKey}

Kwargs == {"defaults", "override"}

NoInst == 0

VARIABLES
    plugins,    \* PluginManager._plugins: the registered (type, name) keys
    active,     \* PluginManager._active_plugins: key -> instance (NoInst = absent)
    insts,      \* every plugin instance constructed so far, in construction order
    task,       \* per coroutine: where it is suspended and its locals
    last,       \* outcome of the call that completed most recently: built is the
                \* instance the call constructed, seen the instances callers of
                \* the key had received when the call was entered
    returned,   \* key -> instances handed to callers since the key's last shutdown call
    shutCalled, \* instances whose shutdown hook was invoked by a completed shutdown_plugin
    shutTrue,   \* instances whose shutdown hook returned True in a completed shutdown_plugin
    storeInit,  \* ChromaVectorStore.initialized
    coll,       \* the ChromaDB collection: its records in insertion order
    storeLast,  \* outcome of the most recent add_texts, delete or clear_collection call:
                \* ready tells whether the store was initialized, fault whether the
                \* backend failed, pre the ids stored when the call was made
    everExplicit, \* whether some add_texts call so far was given explicit ids
    embInit,    \* OllamaEmbedding.initialized
    embLast,    \* outcome of the most recent embed_documents or embed_query call
    doc,        \* the Document row: status, message and metadata
    ing,        \* the process_document call in progress: position and locals
    dimension,  \* legacy VectorStore.dimension (0 = None)
    index,      \* legacy VectorStore.index: the vectors added in this session, in order
    collection, \* the persistent ChromaDB collection of the legacy VectorStore
    legacyLast, \* outcome of the most recent call on the legacy VectorStore
    splitArgs,  \* the arguments of the split_text call, once chosen
    splitResult, \* what the split_text call returned, once it has run
    chat,       \* the process_query call in progress: position, context, response
    scans,      \* the discover_plugins runs so far
    genCall,    \* the EmbeddingService.generate call in progress
    life        \* the plugin manager over the lifespan of the application

regVars == <<plugins, active, insts, task, last, returned, shutCalled, shutTrue>>

storeVars == <<storeInit, coll, storeLast, everExplicit>>

embVars == <<embInit, embLast>>

docVars == <<doc, ing>>

legacyVars == <<dimension, index, collection, legacyLast>>

\* The backend (regVars .. docVars) and everything outside it.
coreVars == <<regVars, storeVars, embVars, docVars>>

splitVars == <<splitArgs, splitResult>>

chatVars == <<chat>>

scanVars == <<scans>>

genVars == <<genCall>>

lifeVars == <<life>>

extVars == <<legacyVars, splitVars, chatVars, scanVars, genVars, lifeVars>>

vars == <<coreVars, extVars>>

\* ------------------------------------------------------------------------
\* Exceptions (app/core/exceptions.py)
\* ------------------------------------------------------------------------
\* Base class of each exception class.
ExcBase(cls) ==
    CASE cls = "PluginError" -> "Exception"
      [] cls = "PluginNotFoundError" -> "PluginError"
      [] cls = "PluginInitializationError" -> "PluginError"
      [] cls = "ServiceUnavailableError" -> "HTTPException"
      [] OTHER -> "BaseException"

\* Keyword parameters the __init__ of a class accepts.
InitKeywords(cls) ==
    CASE cls \in {"PluginError", "PluginNotFoundError", "PluginInitializationError",
                  "ServiceUnavailableError"} -> {"detail", "headers"}
      [] cls = "HTTPException" -> {"status_code", "detail", "headers"}
      [] OTHER -> {}

\* Keyword arguments the __init__ of a class passes to super().__init__.
SuperInitKeywords(cls) ==
    CASE cls \in {"PluginError", "PluginNotFoundError", "PluginInitializationError",
                  "ServiceUnavailableError"} -> {"status_code", "detail", "headers"}
      [] OTHER -> {}

\* The exception that `raise cls(message)` raises: cls when its constructor
\* completes, TypeError when super().__init__ rejects a keyword argument.
Raised(cls) ==
    IF SuperInitKeywords(cls) \subseteq InitKeywords(ExcBase(cls))
    THEN cls
    ELSE "TypeError"

\* ------------------------------------------------------------------------
\* Plugin registry: state
\* ------------------------------------------------------------------------
Idle == [pc |-> "idle", op |-> "none", key |-> UnknownKey, inst |-> NoInst]

NoCall == [op |-> "none", key |-> UnknownKey, kind |-> "none", val |-> NoInst,
           exc |-> "none", built |-> NoInst, seen |-> {}]

InitRegistry ==
    /\ plugins = {}
    /\ active = [k \in Keys |-> NoInst]
    /\ insts = <<>>
    /\ task = [t \in Tasks |-> Idle]
    /\ last = NoCall
    /\ returned = [k \in Keys |-> {}]
    /\ shutCalled = {}
    /\ shutTrue = {}

IsActive(k) == active[k] # NoInst

\* A call returns value v to its caller.
Return(t, op, k, v, built, seen) ==
    /\ last' = [op |-> op, key |-> k, kind |-> "return", val |-> v, exc |-> "none",
                built |-> built, seen |-> seen]
    /\ task' = [task EXCEPT ![t] = Idle]

\* A call ends with exception e reaching its caller.
Raise(t, op, k, e, built, seen) ==
    /\ last' = [op |-> op, key |-> k, kind |-> "raise", val |-> NoInst, exc |-> e,
                built |-> built, seen |-> seen]
    /\ task' = [task EXCEPT ![t] = Idle]

\* discover_plugins: register every plugin class found on disk.
\* RegistryAfterDiscover with a scan that drops the entries it finds registered already.
RegistryAfterDiscover_DropsKnown(registered) ==
    (registered \cup PluginFiles) \ (registered \cap PluginFiles)

\* self._plugins after a scan: self._plugins[plugin_type][plugin_name] = obj
\* for every plugin class found; an entry found again is assigned again.
RegistryAfterDiscover(registered) == registered \cup PluginFiles

DiscoverPlugins ==
    /\ scans < MaxScans
    /\ plugins' = RegistryAfterDiscover(plugins)
    /\ scans' = scans + 1
    /\ UNCHANGED <<active, insts, task, last, returned, shutCalled, shutTrue>>
    /\ UNCHANGED <<storeVars, embVars, docVars, legacyVars, splitVars, chatVars, genVars, lifeVars>>

\* get_plugin_class
GetPluginClass(t, k) ==
    /\ task[t].pc = "idle"
    /\ IF k \notin plugins
       THEN Raise(t, "get_plugin_class", k, Raised("PluginNotFoundError"), NoInst, {})
       ELSE Return(t, "get_plugin_class", k, NoInst, NoInst, {})
    /\ UNCHANGED <<plugins, active, insts, returned, shutCalled, shutTrue>>
    /\ UNCHANGED <<storeVars, embVars, docVars, extVars>>

\* initialize_plugin up to the await of the initialize hook; op is the
\* entry point the caller used (get_plugin delegates here).  kw stands for the
\* keyword arguments: they are handed to the initialize hook and to nothing
\* else, and what the hook makes of them shows in its outcome.
InitializeEntry(t, op, k, kw) ==
    IF k \notin plugins
    THEN /\ Raise(t, op, k, Raised("PluginNotFoundError"), NoInst, returned[k])
         /\ UNCHANGED <<plugins, active, insts, returned, shutCalled, shutTrue>>
    ELSE IF IsActive(k)
    THEN /\ Return(t, op, k, active[k], NoInst, returned[k])
         /\ returned' = [returned EXCEPT ![k] = @ \cup {active[k]}]
         /\ UNCHANGED <<plugins, active, insts, shutCalled, shutTrue>>
    ELSE /\ Len(insts) < MaxInst
         /\ insts' = Append(insts, [key |-> k, init |-> "pending"])
         /\ task' = [task EXCEPT ![t] = [pc |-> "init_hook", op |-> op, key |-> k,
                                         inst |-> Len(insts) + 1]]
         /\ UNCHANGED <<plugins, active, last, returned, shutCalled, shutTrue>>

InitializePlugin(t, k, kw) ==
    /\ task[t].pc = "idle"
    /\ InitializeEntry(t, "initialize_plugin", k, kw)
    /\ UNCHANGED <<storeVars, embVars, docVars, extVars>>

\* get_plugin
GetPlugin(t, k, initIfNotActive, kw) ==
    /\ task[t].pc = "idle"
    /\ IF IsActive(k)
       THEN /\ Return(t, "get_plugin", k, active[k], NoInst, returned[k])
            /\ returned' = [returned EXCEPT ![k] = @ \cup {active[k]}]
            /\ UNCHANGED <<plugins, active, insts, shutCalled, shutTrue>>
       ELSE IF initIfNotActive
       THEN InitializeEntry(t, "get_plugin", k, kw)
       ELSE /\ Raise(t, "get_plugin", k, Raised("PluginNotFoundError"), NoInst, returned[k])
            /\ UNCHANGED <<plugins, active, insts, returned, shutCalled, shutTrue>>
    /\ UNCHANGED <<storeVars, embVars, docVars, extVars>>

HookOutcomes == {"true", "false", "raise"}

\* ActiveAfterInit with the instance stored before the result of the hook is looked at.
ActiveAfterInit_StoredBeforeCheck(k, i, outcome) == [active EXCEPT ![k] = i]

\* The active set when initialize_plugin ends: instance i is stored under
\* key k only after its initialize hook returned True.
ActiveAfterInit(k, i, outcome) ==
    IF outcome = "true" THEN [active EXCEPT ![k] = i] ELSE active

\* initialize_plugin from the return of the initialize hook to its end.
InitializeResume(t, outcome) ==
    /\ task[t].pc = "init_hook"
    /\ LET k == task[t].key
           i == task[t].inst
       IN IF outcome = "true"
          THEN /\ active' = ActiveAfterInit(k, i, outcome)
               /\ insts' = [insts EXCEPT ![i].init = "ok"]
               /\ returned' = [returned EXCEPT ![k] = @ \cup {i}]
               /\ Return(t, task[t].op, k, i, i, {})
               /\ UNCHANGED <<plugins, shutCalled, shutTrue>>
          ELSE \* the hook returned False (the raise in the try block) or raised:
               \* both reach the except clause, which raises again
               /\ active' = ActiveAfterInit(k, i, outcome)
               /\ insts' = [insts EXCEPT ![i].init = "failed"]
               /\ Raise(t, task[t].op, k, Raised("PluginInitializationError"), i, {})
               /\ UNCHANGED <<plugins, returned, shutCalled, shutTrue>>
    /\ UNCHANGED <<storeVars, embVars, docVars, extVars>>

\* shutdown_plugin up to the await of the shutdown hook.
ShutdownPlugin(t, k) ==
    /\ task[t].pc = "idle"
    /\ returned' = [returned EXCEPT ![k] = {}]
    /\ IF IsActive(k)
       THEN /\ task' = [task EXCEPT ![t] = [pc |-> "shutdown_hook", op |-> "shutdown_plugin",
                                            key |-> k, inst |-> active[k]]]
            /\ UNCHANGED last
       ELSE Return(t, "shutdown_plugin", k, FALSE, NoInst, {})
    /\ UNCHANGED <<plugins, active, insts, shutCalled, shutTrue>>
    /\ UNCHANGED <<storeVars, embVars, docVars, extVars>>

\* DeleteActive with the del statement left out.
DeleteActive_NoDelete(k) == active

\* The active set after `del self._active_plugins[plugin_type][plugin_name]`.
DeleteActive(k) == [active EXCEPT ![k] = NoInst]

\* shutdown_plugin from the return of the shutdown hook to its end.
ShutdownResume(t, outcome) ==
    /\ task[t].pc = "shutdown_hook"
    /\ LET k == task[t].key
           p == task[t].inst
       IN /\ shutCalled' = shutCalled \cup {p}
          /\ returned' = [returned EXCEPT ![k] = {}]
          /\ IF outcome = "true"
             THEN /\ shutTrue' = shutTrue \cup {p}
                  /\ IF IsActive(k)
                     THEN /\ active' = DeleteActive(k)
                          /\ Return(t, "shutdown_plugin", k, TRUE, NoInst, {})
                     ELSE \* del raises KeyError, caught by the except clause
                          /\ UNCHANGED active
                          /\ Return(t, "shutdown_plugin", k, FALSE, NoInst, {})
             ELSE /\ UNCHANGED <<active, shutTrue>>
                  /\ Return(t, "shutdown_plugin", k, FALSE, NoInst, {})
    /\ UNCHANGED <<plugins, insts>>
    /\ UNCHANGED <<storeVars, embVars, docVars, extVars>>


\* ------------------------------------------------------------------------
\* ChromaVectorStore (app/plugins/vector_stores/chroma.py)
\* ------------------------------------------------------------------------
\* Chunks a caller can pass: <<text, metadata>>; add_texts receives the
\* texts and the metadatas as two parallel lists.
Chunks == { <<"alpha", "m1">>, <<"beta", "m2">> }

Metas == { c[2] : c \in Chunks }

EmptyMeta == "{}"

\* Ids a caller passes explicitly.
ExplicitIds == {"1", "x"}

Digits == <<"0", "1", "2", "3", "4", "5", "6", "7", "8", "9">>

\* str(n) for a natural number n
RECURSIVE Str(_)
Str(n) == IF n < 10 THEN Digits[n + 1] ELSE Str(n \div 10) \o Digits[(n % 10) + 1]

\* An optional argument: None or a value.
None == [given |-> FALSE, val |-> <<>>]
Some(v) == [given |-> TRUE, val |-> v]

\* batch_size of add_texts
BatchSize == 100

Min(a, b) == IF a < b THEN a ELSE b

IdsOf(c) == { c[i].id : i \in 1..Len(c) }

\* What ChromaDB does with an add whose ids are already in the collection
\* depends on its version: it raises, or it keeps the stored record and drops
\* the new one.
DupModes == {"raise", "skip"}

\* collection.add(batch): ids repeated inside the batch are rejected.
ChromaAdd(c, batch, dupMode) ==
    IF \E i, j \in 1..Len(batch) : i < j /\ batch[i].id = batch[j].id
    THEN [ok |-> FALSE, coll |-> c]
    ELSE IF \E i \in 1..Len(batch) : batch[i].id \in IdsOf(c)
    THEN IF dupMode = "raise"
         THEN [ok |-> FALSE, coll |-> c]
         ELSE [ok |-> TRUE, coll |-> c \o SelectSeq(batch, LAMBDA r : r.id \notin IdsOf(c))]
    ELSE [ok |-> TRUE, coll |-> c \o batch]

\* The loop of add_texts over the sub-batches, from record i on; the backend
\* call of sub-batch number failAt raises (0: none does).
RECURSIVE AddBatches(_, _, _, _, _)
AddBatches(c, recs, i, failAt, dupMode) ==
    IF i > Len(recs)
    THEN [ok |-> TRUE, coll |-> c]
    ELSE IF ((i - 1) \div BatchSize) + 1 = failAt
    THEN [ok |-> FALSE, coll |-> c]
    ELSE LET endIdx == Min(i + BatchSize - 1, Len(recs))
             r == ChromaAdd(c, SubSeq(recs, i, endIdx), dupMode)
         IN IF r.ok
            THEN AddBatches(r.coll, recs, endIdx + 1, failAt, dupMode)
            ELSE r

\* The ids add_texts generates when the caller passes none.
GenerateIds(count, n) == [i \in 1..n |-> Str(count + (i - 1))]

\* AfterFailedBatch with the sub-batches written before the failure taken out again.
AfterFailedBatch_RolledBack(before, reached) == before

\* The collection the except clause of add_texts leaves: nothing is undone,
\* the sub-batches written before the failing one stay.
AfterFailedBatch(before, reached) == reached

\* add_texts: the value returned or the exception raised, and the collection afterwards.
AddTextsResult(c, texts, nEmb, metadatas, ids, failAt, dupMode) ==
    IF ~storeInit
    THEN [kind |-> "return", ret |-> <<>>, exc |-> "none", coll |-> c]
    ELSE IF Len(texts) # nEmb
    THEN [kind |-> "raise", ret |-> <<>>, exc |-> "ValueError", coll |-> c]
    ELSE IF texts = <<>>
    THEN [kind |-> "return", ret |-> <<>>, exc |-> "none", coll |-> c]
    ELSE LET ids2 == IF ids.given THEN ids.val ELSE GenerateIds(Len(c), Len(texts))
             metas2 == IF metadatas.given THEN metadatas.val
                       ELSE [i \in 1..Len(texts) |-> EmptyMeta]
             recs == [i \in 1..Len(texts) |->
                         [id |-> ids2[i], text |-> texts[i], meta |-> metas2[i]]]
             r == AddBatches(c, recs, 1, failAt, dupMode)
         IN IF r.ok
            THEN [kind |-> "return", ret |-> ids2, exc |-> "none", coll |-> r.coll]
            ELSE [kind |-> "return", ret |-> <<>>, exc |-> "none",
                  coll |-> AfterFailedBatch(c, r.coll)]

\* get(ids, filter): the stored records with the requested ids; with no ids
\* and no filter, every record.
GetResult(c, ids, filter) ==
    IF ~storeInit
    THEN <<>>
    ELSE IF ids # <<>>
    THEN LET hit(i) == SelectSeq(c, LAMBDA r : r.id = ids[i])
             RECURSIVE Collect(_)
             Collect(i) == IF i > Len(ids) THEN <<>> ELSE hit(i) \o Collect(i + 1)
         IN Collect(1)
    ELSE IF filter.given
    THEN SelectSeq(c, LAMBDA r : r.meta = filter.val)
    ELSE c

Documents(recs) == [i \in 1..Len(recs) |-> recs[i].text]
Metadatas(recs) == [i \in 1..Len(recs) |-> recs[i].meta]

NoStoreCall == [op |-> "none", ready |-> FALSE, texts |-> <<>>, metas |-> <<>>,
                explicit |-> FALSE, fault |-> FALSE, kind |-> "none", ret |-> <<>>,
                pre |-> {}, topK |-> 0, failAt |-> 0]

InitStore ==
    /\ storeInit = FALSE
    /\ coll = <<>>
    /\ storeLast = NoStoreCall
    /\ everExplicit = FALSE

\* initialize: opens the persistent collection; False when ChromaDB cannot be opened.
StoreInitialize(ok) ==
    /\ storeInit' = IF ok THEN TRUE ELSE storeInit
    /\ UNCHANGED <<coll, storeLast, everExplicit>>
    /\ UNCHANGED <<regVars, embVars, docVars, extVars>>

\* shutdown
StoreShutdown ==
    /\ storeInit' = FALSE
    /\ UNCHANGED <<coll, storeLast, everExplicit>>
    /\ UNCHANGED <<regVars, embVars, docVars, extVars>>

\* Sequences of 0..n chunks
ChunkSeqs(n) == UNION { [1..m -> Chunks] : m \in 0..n }

\* add_texts(texts, embeddings, metadatas, ids)
AddTexts(chunks, nEmb, withMetas, ids, failAt, dupMode) ==
    LET texts == [i \in 1..Len(chunks) |-> chunks[i][1]]
        metas == [i \in 1..Len(chunks) |-> chunks[i][2]]
        r == AddTextsResult(coll, texts, nEmb, IF withMetas THEN Some(metas) ELSE None,
                            ids, failAt, dupMode)
    IN /\ Len(coll) + Len(chunks) <= MaxColl
       /\ coll' = r.coll
       /\ storeLast' = [op |-> "add_texts", ready |-> storeInit, texts |-> texts,
                        metas |-> IF withMetas THEN metas
                                  ELSE [i \in 1..Len(chunks) |-> EmptyMeta],
                        explicit |-> ids.given, fault |-> (failAt # 0),
                        kind |-> r.kind, ret |-> r.ret, pre |-> IdsOf(coll),
                        topK |-> 0, failAt |-> failAt]
       /\ everExplicit' = (everExplicit \/ ids.given)
       /\ UNCHANGED storeInit
       /\ UNCHANGED <<regVars, embVars, docVars, extVars>>

\* delete(ids, filter)
Delete(ids, filter, fail) ==
    /\ coll' = IF ~storeInit \/ fail
               THEN coll
               ELSE IF ids # <<>>
               THEN SelectSeq(coll, LAMBDA r : \A i \in 1..Len(ids) : r.id # ids[i])
               ELSE IF filter.given
               THEN SelectSeq(coll, LAMBDA r : r.meta # filter.val)
               ELSE coll
    /\ storeLast' = [NoStoreCall EXCEPT !.op = "delete"]
    /\ UNCHANGED <<storeInit, everExplicit>>
    /\ UNCHANGED <<regVars, embVars, docVars, extVars>>

\* clear_collection: drops and recreates the collection.
ClearCollection(fail) ==
    /\ coll' = IF ~storeInit \/ fail THEN coll ELSE <<>>
    /\ storeLast' = [NoStoreCall EXCEPT !.op = "clear_collection"]
    /\ UNCHANGED <<storeInit, everExplicit>>
    /\ UNCHANGED <<regVars, embVars, docVars, extVars>>

\* The sub-batches add_texts makes of n texts.
NumBatches(n) == (n + BatchSize - 1) \div BatchSize

\* Sizes of the calls that fill whole sub-batches, with and without one text more.
BulkSizes == { k * BatchSize + r : k \in 1..MaxBulkBatches, r \in 0..1 }

\* add_texts(texts, embeddings) of n texts, with generated ids and no
\* metadatas; the backend call of sub-batch number failAt raises (0: none).
AddTextsBulk(n, failAt) ==
    LET texts == [i \in 1..n |-> "alpha"]
        r == AddTextsResult(coll, texts, n, None, None, failAt, "raise")
    IN /\ Len(coll) + n <= MaxBulkBatches * BatchSize + 1
       /\ failAt <= NumBatches(n)
       /\ coll' = r.coll
       /\ storeLast' = [op |-> "add_texts", ready |-> storeInit, texts |-> texts,
                        metas |-> [i \in 1..n |-> EmptyMeta],
                        explicit |-> FALSE, fault |-> (failAt # 0),
                        kind |-> r.kind, ret |-> r.ret, pre |-> IdsOf(coll),
                        topK |-> 0, failAt |-> failAt]
       /\ UNCHANGED <<storeInit, everExplicit>>
       /\ UNCHANGED <<regVars, embVars, docVars, extVars>>

IdPool == {"0", "1", "x"}

\* What the backend does during one add_texts call: <<the sub-batch whose add
\* fails (0: none), the treatment of ids already stored>>.
BackendCases == { <<0, "raise">>, <<0, "skip">>, <<1, "raise">> }

\* ------------------------------------------------------------------------
\* OllamaEmbedding (app/plugins/embedding_providers/ollama.py)
\* ------------------------------------------------------------------------
Texts == { c[1] : c \in Chunks }

\* Length of the vectors the configured Ollama model returns.
ModelDims == {768, 1024}

\* Length of the fallback vector of embed_documents.
FallbackDim == 768

\* The vector _get_embedding returns for a text.
Embedding(text, dim) == [text |-> text, dim |-> dim, zero |-> FALSE]

\* [0.0] * 768
ZeroVector == [text |-> "", dim |-> FallbackDim, zero |-> TRUE]

\* embed_documents: fails is the set of positions whose _get_embedding call
\* raises, dim the length of the vectors the model returns.
EmbedDocuments(texts, fails, dim) ==
    IF ~embInit
    THEN [kind |-> "raise", exc |-> "RuntimeError", vecs |-> <<>>]
    ELSE [kind |-> "return", exc |-> "none",
          vecs |-> [i \in 1..Len(texts) |->
                       IF i \in fails THEN ZeroVector ELSE Embedding(texts[i], dim)]]

\* embed_query: the failure of _get_embedding is raised again.
EmbedQuery(text, fail, dim) ==
    IF ~embInit
    THEN [kind |-> "raise", exc |-> "RuntimeError", vecs |-> <<>>]
    ELSE IF fail
    THEN [kind |-> "raise", exc |-> "RuntimeError", vecs |-> <<>>]
    ELSE [kind |-> "return", exc |-> "none", vecs |-> <<Embedding(text, dim)>>]

NoEmbedCall == [op |-> "none", texts |-> <<>>, fails |-> {}, kind |-> "none",
                exc |-> "none", vecs |-> <<>>]

InitEmbed ==
    /\ embInit = FALSE
    /\ embLast = NoEmbedCall

\* initialize: False when the base URL or model is missing or Ollama does not answer.
EmbedInitialize(ok) ==
    /\ embInit' = IF ok THEN TRUE ELSE embInit
    /\ UNCHANGED embLast
    /\ UNCHANGED <<regVars, storeVars, docVars, extVars>>

\* shutdown
EmbedShutdown ==
    /\ embInit' = FALSE
    /\ UNCHANGED embLast
    /\ UNCHANGED <<regVars, storeVars, docVars, extVars>>

TextSeqs(n) == UNION { [1..m -> Texts] : m \in 0..n }

EmbedDocumentsCall(texts, fails, dim) ==
    LET r == EmbedDocuments(texts, fails, dim)
    IN /\ embLast' = [op |-> "embed_documents", texts |-> texts, fails |-> fails,
                      kind |-> r.kind, exc |-> r.exc, vecs |-> r.vecs]
       /\ UNCHANGED embInit
       /\ UNCHANGED <<regVars, storeVars, docVars, extVars>>

EmbedQueryCall(text, fail, dim) ==
    LET r == EmbedQuery(text, fail, dim)
    IN /\ embLast' = [op |-> "embed_query", texts |-> <<text>>,
                      fails |-> IF fail THEN {1} ELSE {},
                      kind |-> r.kind, exc |-> r.exc, vecs |-> r.vecs]
       /\ UNCHANGED embInit
       /\ UNCHANGED <<regVars, storeVars, docVars, extVars>>

\* ------------------------------------------------------------------------
\* DocumentService (app/services/document_service.py)
\* ------------------------------------------------------------------------
DocumentId == "doc-1"

FileTypes == {"epub", "txt"}

\* plugin_map of _get_document_plugin
SupportedTypes == {"epub", "pdf", "docx"}

\* Chapter lists a document handler reports (titles, in order).
ChapterLists == { <<>>, <<"ch1">>, <<"ch1", "ch2">> }

NoDocument == [status |-> "absent", message |-> "", meta |-> None]

\* CRUDDocument.update_status: no row, no write.
UpdateStatus(d, status, message, metadata) ==
    IF d.status = "absent"
    THEN d
    ELSE [status |-> status,
          message |-> IF message # "" THEN message ELSE d.message,
          meta |-> IF metadata.given THEN metadata ELSE d.meta]

NotStarted == [pc |-> "idle", fileType |-> "epub", texts |-> <<>>, chapters |-> <<>>,
               metaChapters |-> None, kg |-> "none", vs |-> "none", written |-> <<>>,
               result |-> "none"]

InitIngest ==
    /\ doc = NoDocument
    /\ ing = NotStarted

\* create_document: CRUDDocument.create_with_id
CreateDocument ==
    /\ doc.status = "absent"
    /\ doc' = [status |-> "pending", message |-> "", meta |-> None]
    /\ UNCHANGED ing
    /\ UNCHANGED <<regVars, storeVars, embVars, extVars>>

\* process_document up to the lookup of the document handler.
ProcessStart(fileType) ==
    /\ ing.pc \in {"idle", "done"}
    /\ doc' = UpdateStatus(doc, "processing", "Document processing started", None)
    /\ ing' = IF doc.status = "absent"
              THEN [NotStarted EXCEPT !.pc = "done", !.fileType = fileType, !.result = "None"]
              ELSE [NotStarted EXCEPT !.pc = "handler", !.fileType = fileType]
    /\ UNCHANGED <<regVars, storeVars, embVars, extVars>>

\* An except clause that returns None and writes no status.
ProcessFailed_NoStatusWrite ==
    /\ UNCHANGED doc
    /\ ing' = [ing EXCEPT !.pc = "done", !.result = "None"]

\* The except clause of process_document.
ProcessFailed ==
    /\ doc' = UpdateStatus(doc, "failed", "Document processing failed", None)
    /\ ing' = [ing EXCEPT !.pc = "done", !.result = "None"]

LookupOutcomes == {"ok", "raise"}

\* _get_document_plugin: an unsupported type or a failed registry lookup
\* raises ServiceUnavailableError.
GetDocumentPlugin(lookup) ==
    /\ ing.pc = "handler"
    /\ IF ing.fileType \notin SupportedTypes \/ lookup = "raise"
       THEN ProcessFailed
       ELSE /\ ing' = [ing EXCEPT !.pc = "parse"]
            /\ UNCHANGED doc
    /\ UNCHANGED <<regVars, storeVars, embVars, extVars>>

\* document_plugin.process_document and the metadata update that follows.
ParseDocument(raises, texts, chapters, metaHasChapters) ==
    /\ ing.pc = "parse"
    /\ IF raises
       THEN ProcessFailed
       ELSE /\ doc' = UpdateStatus(doc, "processing",
                                   "Document parsed, adding to knowledge base",
                                   Some([chapters |-> chapters, chunk_count |-> Len(texts)]))
            /\ ing' = [ing EXCEPT !.pc = "graph", !.texts = texts, !.chapters = chapters,
                                  !.metaChapters = IF metaHasChapters THEN Some(chapters)
                                                   ELSE None]
    /\ UNCHANGED <<regVars, storeVars, embVars, extVars>>

GraphOutcomes == {"ok", "unavailable", "add_book_raises", "add_chapters_raises"}

\* KnowledgeGraphResult with the exceptions of the step reaching process_document.
KnowledgeGraphResult_Propagates(outcome) == [raised |-> outcome # "ok", ret |-> TRUE]

\* What _add_to_knowledge_graph gives its caller: True, or False from its
\* except clause; no exception leaves it.
KnowledgeGraphResult(outcome) == [raised |-> FALSE, ret |-> outcome = "ok"]

\* _add_to_knowledge_graph: every exception is caught; the result is not used.
AddToKnowledgeGraph(outcome) ==
    /\ ing.pc = "graph"
    /\ outcome = "add_chapters_raises" => ing.chapters # <<>>
    /\ IF KnowledgeGraphResult(outcome).raised
       THEN /\ doc' = UpdateStatus(doc, "failed", "Document processing failed", None)
            /\ ing' = [ing EXCEPT !.pc = "done", !.kg = outcome, !.result = "None"]
       ELSE /\ ing' = [ing EXCEPT !.pc = "vector", !.kg = outcome]
            /\ UNCHANGED doc
    /\ UNCHANGED <<regVars, storeVars, embVars, extVars>>

\* The chapter title _add_to_vector_store gives chunk i (from 0): read from the
\* "chapters" entry of the handler's metadata.
ChapterOf(metaChapters, i) ==
    IF metaChapters.given /\ metaChapters.val # <<>>
    THEN metaChapters.val[Min(i \div 5, Len(metaChapters.val) - 1) + 1]
    ELSE ""

ChunkMetadatas(texts, metaChapters) ==
    [i \in 1..Len(texts) |->
        [document_id |-> DocumentId, chunk_index |-> i - 1,
         chapter |-> ChapterOf(metaChapters, i - 1)]]

\* The body of _add_to_vector_store: what happened, and the collection afterwards.
VectorStoreStep(texts, metaChapters, vsLookup, embLookup, fails, dim, failAt, dupMode) ==
    IF vsLookup = "raise" \/ embLookup = "raise"
    THEN [vs |-> "plugin_unavailable", coll |-> coll]
    ELSE LET e == EmbedDocuments(texts, fails, dim)
         IN IF e.kind = "raise"
            THEN [vs |-> "embed_raised", coll |-> coll]
            ELSE LET r == AddTextsResult(coll, texts, Len(e.vecs),
                                         Some(ChunkMetadatas(texts, metaChapters)),
                                         None, failAt, dupMode)
                 IN [vs |-> IF r.kind = "raise" THEN "add_raised"
                            ELSE IF texts = <<>> THEN "nothing_to_add"
                            ELSE IF r.ret = <<>> THEN "add_empty"
                            ELSE "stored",
                     coll |-> r.coll]

\* _add_to_vector_store: every exception is caught; the result is not used.
AddToVectorStore(vsLookup, embLookup, fails, dim, failAt, dupMode) ==
    /\ ing.pc = "vector"
    /\ Len(coll) + Len(ing.texts) <= MaxColl
    /\ LET r == VectorStoreStep(ing.texts, ing.metaChapters, vsLookup, embLookup,
                                fails, dim, failAt, dupMode)
       IN /\ coll' = r.coll
          /\ ing' = [ing EXCEPT !.pc = "complete", !.vs = r.vs,
                                !.written = SubSeq(r.coll, Len(coll) + 1, Len(r.coll))]
    /\ UNCHANGED <<doc, storeInit, storeLast, everExplicit>>
    /\ UNCHANGED <<regVars, embVars, extVars>>

\* The end of the try block of process_document.
ProcessCompleted ==
    /\ ing.pc = "complete"
    /\ doc' = UpdateStatus(doc, "completed", "Document processing completed", None)
    /\ ing' = [ing EXCEPT !.pc = "done", !.result = "document"]
    /\ UNCHANGED <<regVars, storeVars, embVars, extVars>>

\* ------------------------------------------------------------------------
\* ChromaVectorStore.search (app/plugins/vector_stores/chroma.py)
\* ------------------------------------------------------------------------
\* Positions of seq from the nearest to the farthest vector, order listing the
\* texts by increasing distance to the query; equal vectors keep their order.
RECURSIVE Ranked(_, _, _)
Ranked(seq, order, r) ==
    IF r > Len(order)
    THEN <<>>
    ELSE SelectSeq([i \in 1..Len(seq) |-> i], LAMBDA i : seq[i].text = order[r])
            \o Ranked(seq, order, r + 1)

\* Orders of the texts by distance to a query.
Orders == { o \in [1..Cardinality(Texts) -> Texts] :
               \A i, j \in 1..Cardinality(Texts) : i # j => o[i] # o[j] }

\* The first n elements of a sequence.
Take(seq, n) == SubSeq(seq, 1, Min(n, Len(seq)))

\* search(query_embedding, top_k, filter): the ids of the results, nearest
\* first; fail tells that collection.query raises.
SearchResult(c, top_k, filter, order, fail) ==
    IF ~storeInit \/ fail
    THEN <<>>
    ELSE LET n_results == Min(top_k * 2, IF Len(c) # 0 THEN Len(c) ELSE top_k * 2)
             candidates == IF filter.given
                           THEN SelectSeq(c, LAMBDA r : r.meta = filter.val)
                           ELSE c
             ranked == Ranked(candidates, order, 1)
             ids == [i \in 1..Min(n_results, Len(ranked)) |-> candidates[ranked[i]].id]
         IN Take(ids, top_k)

Search(top_k, filter, order, fail) ==
    /\ storeLast' = [NoStoreCall EXCEPT !.op = "search", !.ready = storeInit,
                        !.fault = fail, !.kind = "return", !.topK = top_k,
                        !.ret = SearchResult(coll, top_k, filter, order, fail)]
    /\ UNCHANGED <<storeInit, coll, everExplicit>>
    /\ UNCHANGED <<regVars, embVars, docVars, extVars>>

\* ------------------------------------------------------------------------
\* Legacy VectorStore (src/rag/vector_store.py): a persistent ChromaDB
\* collection and an in-memory FAISS index built during the session
\* ------------------------------------------------------------------------
\* retries of _get_embedding_with_retries
Retries == 3

\* One litellm.embedding call: it raises, or it answers with vectors of one length.
AttemptOutcomes ==
    { [ok |-> FALSE, exc |-> x, dim |-> 0] : x \in {"APIConnectionError", "Exception"} }
      \cup { [ok |-> TRUE, exc |-> "none", dim |-> d] : d \in ModelDims }

\* What the provider does in the attempts of one call.  The attempts after
\* the first answer are never made (they are listed as equal to it), and
\* within one call the provider fails in one way.
AttemptSeqs ==
    { a \in [1..Retries -> AttemptOutcomes] :
         \A i, j \in 1..Retries :
            /\ (i < j /\ a[i].ok) => a[j] = a[i]
            /\ (~a[i].ok /\ ~a[j].ok) => a[i] = a[j] }

\* The loop of _get_embedding_with_retries: the first answer is returned, the
\* exception of the last attempt is raised; calls counts the provider calls.
GetEmbeddingWithRetries(attempts) ==
    LET answered == { i \in 1..Retries : attempts[i].ok }
    IN IF answered = {}
       THEN [kind |-> "raise", exc |-> attempts[Retries].exc, dim |-> 0,
             calls |-> Retries]
       ELSE LET first == CHOOSE i \in answered : \A j \in answered : i <= j
            IN [kind |-> "return", exc |-> "none", dim |-> attempts[first].dim,
                calls |-> first]

\* self.dimension after an answer of length dim: set only while it is None (0).
DimensionAfter(dim) == IF dimension = 0 THEN dim ELSE dimension

\* self.index after an answer: a new empty index when the dimension is set.
IndexAfter == IF dimension = 0 THEN <<>> ELSE index

\* The length of the vectors a ChromaDB collection holds (0: none yet).
CollectionDim(c) == IF c = <<>> THEN 0 ELSE c[1].dim

\* collection.add of the legacy store: the vectors must have the length of
\* the stored ones, and the ids are treated as by ChromaAdd.
LegacyChromaAdd(c, recs, dupMode) ==
    IF CollectionDim(c) # 0 /\ recs[1].dim # CollectionDim(c)
    THEN [ok |-> FALSE, coll |-> c]
    ELSE ChromaAdd(c, recs, dupMode)

\* Ids a caller of add_text_chunks passes explicitly.
LegacyIds == {"1"}

NoLegacyCall == [op |-> "none", kind |-> "none", exc |-> "none", calls |-> 0,
                 embDim |-> 0, stored |-> <<>>, topK |-> 0, path |-> "none",
                 indices |-> <<>>, ret |-> <<>>]

InitLegacy ==
    /\ dimension = 0
    /\ index = <<>>
    /\ collection = <<>>
    /\ legacyLast = NoLegacyCall

\* VectorStore(...): a new session over the persistent collection; the
\* dimension is unknown and there is no index until the first answer.
NewSession ==
    /\ dimension' = 0
    /\ index' = <<>>
    /\ legacyLast' = [NoLegacyCall EXCEPT !.op = "init"]
    /\ UNCHANGED collection
    /\ UNCHANGED <<coreVars, splitVars, chatVars, scanVars, genVars, lifeVars>>

\* add_text_chunks(text_chunks, ids=ids): embeds, writes to the collection,
\* then adds the vectors to the index; an exception of any step ends the call.
AddTextChunks(text_chunks, ids, attempts, dupMode) ==
    /\ Len(collection) + Len(text_chunks) <= MaxColl
    /\ Len(index) + Len(text_chunks) <= MaxColl
    /\ LET e == GetEmbeddingWithRetries(attempts)
       IN IF e.kind = "raise"
          THEN /\ legacyLast' = [NoLegacyCall EXCEPT !.op = "add_text_chunks",
                                    !.kind = "raise", !.exc = e.exc, !.calls = e.calls]
               /\ UNCHANGED <<dimension, index, collection>>
          ELSE LET ids2 == IF ids.given THEN ids.val
                           ELSE GenerateIds(Len(collection), Len(text_chunks))
                   recs == [i \in 1..Len(text_chunks) |->
                               [id |-> ids2[i], text |-> text_chunks[i], dim |-> e.dim]]
                   a == LegacyChromaAdd(collection, recs, dupMode)
                   written == SubSeq(a.coll, Len(collection) + 1, Len(a.coll))
                   fits == (e.dim = DimensionAfter(e.dim))
               IN /\ dimension' = DimensionAfter(e.dim)
                  /\ collection' = a.coll
                  /\ index' = IF a.ok /\ fits THEN IndexAfter \o recs ELSE IndexAfter
                  /\ legacyLast' = [NoLegacyCall EXCEPT !.op = "add_text_chunks",
                                       !.kind = IF a.ok /\ fits THEN "return" ELSE "raise",
                                       !.exc = IF ~a.ok THEN "ChromaError"
                                               ELSE IF ~fits THEN "AssertionError"
                                               ELSE "none",
                                       !.calls = e.calls, !.embDim = e.dim,
                                       !.stored = written]
    /\ UNCHANGED <<coreVars, splitVars, chatVars, scanVars, genVars, lifeVars>>

\* The body of the try block of search: the ChromaDB query for top_k * 5
\* candidates, then either the refinement by the index or the raw candidates.
\* A query vector of another length than the stored or the indexed ones makes
\* the backend raise, and search then returns the empty list.
SearchBody(c, idx, indexDim, dim, top_k, order) ==
    LET n_results == Min(top_k * 5, Len(c))
        ranked == Ranked(c, order, 1)
        chroma_ids == [i \in 1..Min(n_results, Len(ranked)) |-> c[ranked[i]].id]
    IN IF n_results <= 0 \/ dim # CollectionDim(c)
       THEN [path |-> "none", indices |-> <<>>, ret |-> <<>>]
       ELSE IF Len(idx) > 0 /\ dim # indexDim
       THEN [path |-> "none", indices |-> <<>>, ret |-> <<>>]
       ELSE IF Len(idx) > 0
       THEN LET indices == Take(Ranked(idx, order, 1), Min(top_k, Len(idx)))
                valid == SelectSeq(indices, LAMBDA p : p - 1 < Len(chroma_ids))
                refined == [i \in 1..Len(valid) |->
                               LET id == chroma_ids[valid[i]]
                                   hit == SelectSeq(c, LAMBDA r : r.id = id)
                               IN [id |-> id, text |-> hit[1].text]]
            IN [path |-> "refined", indices |-> Take(valid, top_k),
                ret |-> Take(refined, top_k)]
       ELSE [path |-> "raw", indices |-> <<>>,
             ret |-> [i \in 1..Len(chroma_ids) |->
                         [id |-> chroma_ids[i], text |-> c[ranked[i]].text]]]

\* search(query, top_k): an embedding failure is raised to the caller, every
\* failure after it gives the empty list.
LegacySearch(top_k, order, attempts) ==
    LET e == GetEmbeddingWithRetries(attempts)
    IN /\ IF e.kind = "raise"
          THEN /\ legacyLast' = [NoLegacyCall EXCEPT !.op = "search", !.kind = "raise",
                                    !.exc = e.exc, !.calls = e.calls, !.topK = top_k]
               /\ UNCHANGED <<dimension, index>>
          ELSE LET r == SearchBody(collection, IndexAfter, DimensionAfter(e.dim), e.dim,
                                    top_k, order)
               IN /\ dimension' = DimensionAfter(e.dim)
                  /\ index' = IndexAfter
                  /\ legacyLast' = [NoLegacyCall EXCEPT !.op = "search",
                                       !.kind = "return", !.calls = e.calls,
                                       !.embDim = e.dim, !.topK = top_k,
                                       !.path = r.path, !.indices = r.indices,
                                       !.ret = r.ret]
       /\ UNCHANGED collection
       /\ UNCHANGED <<coreVars, splitVars, chatVars, scanVars, genVars, lifeVars>>

\* The backend call of clear_all that raises.
ClearFailures == {"none", "delete_collection", "get_or_create_collection"}

\* clear_all: the collection is deleted and created again, the index reset
\* when the dimension is known; a backend failure is logged and swallowed.
ClearAll(failAt) ==
    /\ collection' = IF failAt = "delete_collection" THEN collection ELSE <<>>
    /\ index' = IF failAt = "none" /\ dimension # 0 THEN <<>> ELSE index
    /\ legacyLast' = [NoLegacyCall EXCEPT !.op = "clear_all", !.kind = "return"]
    /\ UNCHANGED dimension
    /\ UNCHANGED <<coreVars, splitVars, chatVars, scanVars, genVars, lifeVars>>

\* ------------------------------------------------------------------------
\* split_text (app/utils/text_utils.py); a text is a sequence of characters
\* ------------------------------------------------------------------------
\* Characters of the texts: a letter, whitespace, and the first character of a
\* two-character and of a one-character separator of break_points.
Alphabet == {"a", " ", ".", ","}

\* \s of normalize_text
Whitespace == {" ", "\n"}

RawTexts == UNION { [1..n -> Alphabet] : n \in 0..MaxLen }

\* normalize_text: every run of whitespace becomes one space, and leading and
\* trailing whitespace is removed (NFKC leaves these characters as they are).
NormalizeText(text) ==
    LET keep(i) == \/ text[i] \notin Whitespace
                   \/ /\ i > 1
                      /\ text[i - 1] \notin Whitespace
                      /\ \E j \in (i + 1)..Len(text) : text[j] \notin Whitespace
        kept == SelectSeq([i \in 1..Len(text) |-> i], keep)
    IN [k \in 1..Len(kept) |->
           IF text[kept[k]] \in Whitespace THEN " " ELSE text[kept[k]]]

\* A slice that leaves out the character before end.
Slice_EndOneShort(text, start, end) == SubSeq(text, start + 1, Min(end, Len(text)) - 1)

\* text[start:end] with 0 <= start
Slice(text, start, end) == SubSeq(text, start + 1, Min(end, Len(text)))

\* chunk.rfind(sep): the highest 0-based position at which sep occurs, or -1.
RFind(chunk, sep) ==
    LET hits == { i \in 0..(Len(chunk) - Len(sep)) :
                     SubSeq(chunk, i + 1, i + Len(sep)) = sep }
    IN IF hits = {} THEN -1 ELSE CHOOSE i \in hits : \A j \in hits : j <= i

\* The separators of break_points, in the order of the list.
Separators == << <<"\n", "\n">>, <<".", " ">>, <<"?", " ">>, <<"!", " ">>,
                 <<";">>, <<",">> >>

\* break_points of a window
BreakPoints(chunk) == [k \in 1..Len(Separators) |-> RFind(chunk, Separators[k])]

\* The loop over break_points: the first one found beyond the middle of the
\* window, or -1.
RECURSIVE FirstValid(_, _, _)
FirstValid(break_points, chunk_size, k) ==
    IF k > Len(break_points)
    THEN -1
    ELSE IF break_points[k] # -1 /\ break_points[k] > chunk_size \div 2
    THEN break_points[k]
    ELSE FirstValid(break_points, chunk_size, k + 1)

\* end of the chunk that starts at start
ChunkEnd(text, chunk_size, start) ==
    LET end == start + chunk_size
        bp == IF end < Len(text)
              THEN FirstValid(BreakPoints(Slice(text, start, end)), chunk_size, 1)
              ELSE -1
    IN IF bp # -1 THEN start + bp + 2 ELSE end

\* A cursor that goes back one character further than the overlap.
NextStart_OneFurtherBack(start, end, overlap) ==
    IF end - overlap - 1 > start THEN end - overlap - 1 ELSE end

\* start = end - overlap if end - overlap > start else end
NextStart(start, end, overlap) ==
    IF end - overlap > start THEN end - overlap ELSE end

\* The while loop of split_text: the <<start, end>> of every chunk emitted
\* from position start on.
RECURSIVE SplitLoop(_, _, _, _)
SplitLoop(text, chunk_size, overlap, start) ==
    IF start >= Len(text)
    THEN <<>>
    ELSE LET end == ChunkEnd(text, chunk_size, start)
         IN <<[start |-> start, end |-> end]>>
               \o SplitLoop(text, chunk_size, overlap, NextStart(start, end, overlap))

\* A test that sends a text of exactly chunk_size characters into the loop.
FitsOneChunk_Strict(text, chunk_size) == Len(text) < chunk_size

\* if len(text) <= chunk_size
FitsOneChunk(text, chunk_size) == Len(text) <= chunk_size

\* split_text(text, chunk_size, overlap): normalized is the text after
\* normalize_text, spans the slices the loop cut (none when the text is
\* returned whole), chunks the list returned.
SplitText(text, chunk_size, overlap) ==
    LET normalized == NormalizeText(text)
    IN IF FitsOneChunk(normalized, chunk_size)
       THEN [kind |-> "return", normalized |-> normalized, spans |-> <<>>,
             chunks |-> <<normalized>>]
       ELSE LET spans == SplitLoop(normalized, chunk_size, overlap, 0)
            IN [kind |-> "return", normalized |-> normalized, spans |-> spans,
                chunks |-> [i \in 1..Len(spans) |->
                               Slice(normalized, spans[i].start, spans[i].end)]]

NoArgs == [given |-> FALSE, text |-> <<>>, chunk_size |-> 0, overlap |-> 0]

NotSplit == [kind |-> "none", normalized |-> <<>>, spans |-> <<>>, chunks |-> <<>>]

InitSplit ==
    /\ splitArgs = NoArgs
    /\ splitResult = NotSplit

\* A caller picks the arguments of one split_text call.
SplitArgs ==
    /\ ~splitArgs.given
    /\ \E text \in RawTexts, chunk_size \in 1..MaxChunkSize, overlap \in 0..MaxOverlap :
          splitArgs' = [given |-> TRUE, text |-> text, chunk_size |-> chunk_size,
                        overlap |-> overlap]
    /\ UNCHANGED splitResult
    /\ UNCHANGED <<coreVars, legacyVars, chatVars, scanVars, genVars, lifeVars>>

\* The call runs.
SplitTextCall ==
    /\ splitArgs.given
    /\ splitResult.kind = "none"
    /\ splitResult' = SplitText(splitArgs.text, splitArgs.chunk_size, splitArgs.overlap)
    /\ UNCHANGED splitArgs
    /\ UNCHANGED <<coreVars, legacyVars, chatVars, scanVars, genVars, lifeVars>>

\* ------------------------------------------------------------------------
\* ChatService (app/services/chat_service.py)
\* ------------------------------------------------------------------------
\* top_k of _get_context
ContextTopK == 5

\* Attributes of a Template row (app/models/template.py).
TemplateAttributes ==
    {"id", "name", "description", "template_content", "input_variables",
     "is_system", "usage_count", "created_at", "updated_at"}

\* TemplateService.format_template: the row is looked up (the requested
\* template, else the default one), then template.update_usage_count(...) is
\* called on the row, before the try block that formats it.
FormatTemplate(found) ==
    IF ~found
    THEN [kind |-> "raise", exc |-> "NotFoundError"]
    ELSE IF "update_usage_count" \notin TemplateAttributes
    THEN [kind |-> "raise", exc |-> "AttributeError"]
    ELSE [kind |-> "return", exc |-> "none"]

\* The except clause of _get_context: the failure is logged, [] is returned.
ContextFailed(step) == [raised |-> FALSE, results |-> <<>>, failure |-> step]

\* _get_context: the two plugin lookups, embed_query, then search.
GetContextResult(query, embLookup, vsLookup, embedFails, dim, order, searchFails) ==
    IF embLookup = "raise"
    THEN ContextFailed("embedding_plugin")
    ELSE IF vsLookup = "raise"
    THEN ContextFailed("vector_store_plugin")
    ELSE IF EmbedQuery(query, embedFails, dim).kind = "raise"
    THEN ContextFailed("embed_query")
    ELSE [raised |-> FALSE,
          results |-> SearchResult(coll, ContextTopK, None, order, searchFails),
          failure |-> IF ~storeInit \/ searchFails THEN "search" ELSE "none"]

NoResponse == [kind |-> "none", exc |-> "none", sources |-> <<>>]

NoChat == [pc |-> "idle", context |-> <<>>, failure |-> "none", llm |-> "not_called",
           response |-> NoResponse]

InitChat == chat = NoChat

\* process_query up to the call of _get_context: the user message is stored.
ProcessQuery ==
    /\ chat.pc \in {"idle", "done"}
    /\ chat' = [NoChat EXCEPT !.pc = "context"]
    /\ UNCHANGED <<coreVars, legacyVars, splitVars, scanVars, genVars, lifeVars>>

\* _get_context
GetContext(query, embLookup, vsLookup, embedFails, dim, order, searchFails) ==
    /\ chat.pc = "context"
    /\ LET r == GetContextResult(query, embLookup, vsLookup, embedFails, dim, order,
                                 searchFails)
       IN chat' = [chat EXCEPT !.pc = IF r.raised THEN "except" ELSE "respond",
                               !.context = r.results, !.failure = r.failure]
    /\ UNCHANGED <<coreVars, legacyVars, splitVars, scanVars, genVars, lifeVars>>

LlmOutcomes == {"text", "raise"}

\* The response process_query returns from its except clause.
ErrorResponse(exc) == [kind |-> "error", exc |-> exc, sources |-> <<>>]

\* The rest of process_query: the prompt is formatted from the context, the
\* LLM plugin is looked up and asked, and the response is built; an exception
\* of any step gives the error response.
Respond(found, llmLookup, llm) ==
    /\ chat.pc \in {"respond", "except"}
    /\ LET f == FormatTemplate(found)
       IN chat' =
            IF chat.pc = "except"
            THEN [chat EXCEPT !.pc = "done", !.response = ErrorResponse("Exception")]
            ELSE IF f.kind = "raise"
            THEN [chat EXCEPT !.pc = "done", !.response = ErrorResponse(f.exc)]
            ELSE IF llmLookup = "raise" \/ llm = "raise"
            THEN [chat EXCEPT !.pc = "done", !.llm = "failed",
                              !.response = ErrorResponse("ServiceUnavailableError")]
            ELSE [chat EXCEPT !.pc = "done", !.llm = "answered",
                              !.response = [kind |-> "answer", exc |-> "none",
                                            sources |-> chat.context]]
    /\ UNCHANGED <<coreVars, legacyVars, splitVars, scanVars, genVars, lifeVars>>

\* ------------------------------------------------------------------------
\* EmbeddingService.generate (src/v2/rag/embedding_service.py)
\* ------------------------------------------------------------------------
\* stop_after_attempt of the retry decorator on generate
GenAttempts == 3

\* batch_size of generate
GenBatchSize == 250

\* The sub-batches of n texts: range(0, len(texts), batch_size)
NumGenBatches(n) == (n + GenBatchSize - 1) \div GenBatchSize

\* Numbers of texts that fill whole sub-batches, with and without one more.
GenSizes == { k * GenBatchSize + r : k \in 0..MaxGenBatches, r \in 0..1 }

RECURSIVE SumSeq(_)
SumSeq(q) == IF q = <<>> THEN 0 ELSE Head(q) + SumSeq(Tail(q))

NoGenerate == [pc |-> "idle", n |-> 0, attempt |-> 0, batch |-> 0, embedded |-> 0,
               requested |-> <<>>, failed |-> <<>>, result |-> "none", exc |-> "none"]

InitGen == genCall = NoGenerate

\* generate(texts) is called with n texts: the first attempt starts.
Generate(n) ==
    /\ genCall.pc \in {"idle", "done"}
    /\ genCall' = IF n = 0
              THEN [NoGenerate EXCEPT !.pc = "done", !.attempt = 1, !.result = "return"]
              ELSE [NoGenerate EXCEPT !.pc = "request", !.n = n, !.attempt = 1,
                                      !.batch = 1,
                                      !.requested = [b \in 1..NumGenBatches(n) |-> 0],
                                      !.failed = [b \in 1..NumGenBatches(n) |-> 0]]
    /\ UNCHANGED <<coreVars, legacyVars, splitVars, chatVars, scanVars, lifeVars>>

\* The sub-batch a new attempt starts with: the decorator calls generate
\* again, whose loop starts at range(0, ...) with an empty embeddings list.
NextAttemptBatch(failedBatch) == 1

\* The embeddings gathered when a new attempt starts: embeddings = [].
NextAttemptEmbedded(embedded) == 0

\* One provider request of the loop (ollama_client.embed or litellm.embedding
\* of the current sub-batch) and what follows it: the next sub-batch, the
\* return, a new attempt of the decorator, or its RetryError.
ProviderRequest(ok) ==
    /\ genCall.pc = "request"
    /\ LET b == genCall.batch
           asked == [genCall EXCEPT !.requested[b] = @ + 1]
       IN genCall' =
            IF ok
            THEN IF b = NumGenBatches(genCall.n)
                 THEN [asked EXCEPT !.pc = "done", !.embedded = b, !.result = "return"]
                 ELSE [asked EXCEPT !.embedded = b, !.batch = b + 1]
            ELSE IF genCall.attempt < GenAttempts
            THEN [asked EXCEPT !.failed[b] = @ + 1, !.attempt = @ + 1,
                               !.batch = NextAttemptBatch(b),
                               !.embedded = NextAttemptEmbedded(genCall.embedded)]
            ELSE [asked EXCEPT !.failed[b] = @ + 1, !.pc = "done", !.result = "raise",
                               !.exc = "RetryError"]
    /\ UNCHANGED <<coreVars, legacyVars, splitVars, chatVars, scanVars, lifeVars>>

\* ------------------------------------------------------------------------
\* PluginManager.shutdown_all (app/services/plugin_manager.py), called by
\* lifespan (main.py) when the application stops
\* ------------------------------------------------------------------------
\* The plugins lifespan starts, keyed as discover_plugins registers them.
LifespanPlugins ==
    { <<"vector_stores", "chroma">>, <<"llm_providers", "ollama">>,
      <<"embedding_providers", "ollama">>, <<"knowledge_graphs", "neo4j">> }

\* active: the keys of _active_plugins; atCall: those keys when shutdown_all
\* was called; todo: the keys its loops have not reached; invoked: the calls
\* of each shutdown hook made by shutdown_all; failed: the plugins whose hook
\* raised or returned False.
InitLife ==
    life = [pc |-> "serving", active |-> {}, atCall |-> {}, todo |-> {},
            invoked |-> [k \in LifespanPlugins |-> 0], failed |-> {}]

\* shutdown_plugin(k) with the outcome of the shutdown hook: the active set
\* afterwards, whether the hook was called, and the value returned.
ShutdownPluginResult(act, k, outcome) ==
    IF k \notin act
    THEN [active |-> act, called |-> FALSE, ret |-> FALSE]
    ELSE IF outcome = "true"
    THEN [active |-> act \ {k}, called |-> TRUE, ret |-> TRUE]
    ELSE [active |-> act, called |-> TRUE, ret |-> FALSE]

\* initialize_plugin(k) while the application serves: the instance is stored
\* when its initialize hook returned True.
LifeInitializePlugin(k, outcome) ==
    /\ life.pc = "serving"
    /\ k \notin life.active
    /\ life' = [life EXCEPT !.active = IF outcome = "true" THEN @ \cup {k} ELSE @]
    /\ UNCHANGED <<coreVars, legacyVars, splitVars, chatVars, scanVars, genVars>>

\* shutdown_plugin(k) while the application serves.
LifeShutdownPlugin(k, outcome) ==
    /\ life.pc = "serving"
    /\ k \in life.active
    /\ life' = [life EXCEPT !.active = ShutdownPluginResult(@, k, outcome).active]
    /\ UNCHANGED <<coreVars, legacyVars, splitVars, chatVars, scanVars, genVars>>

\* shutdown_all is called: its loops go over the plugins active now
\* (list(plugins.keys()) of every plugin type).
ShutdownAll ==
    /\ life.pc = "serving"
    /\ life' = [life EXCEPT !.pc = IF life.active = {} THEN "stopped" ELSE "shutting",
                            !.atCall = life.active, !.todo = life.active]
    /\ UNCHANGED <<coreVars, legacyVars, splitVars, chatVars, scanVars, genVars>>

\* RemainingAfter with a failing hook that ends the loops.
RemainingAfter_FailureStops(todo, k, ret) == IF ret THEN todo \ {k} ELSE {}

\* The plugins still to be reached after shutdown_plugin(k) returned ret:
\* the value is not looked at, and shutdown_plugin raises nothing.
RemainingAfter(todo, k, ret) == todo \ {k}

\* One iteration of the loops of shutdown_all: await shutdown_plugin(k).
ShutdownAllStep(k, outcome) ==
    /\ life.pc = "shutting"
    /\ k \in life.todo
    /\ LET r == ShutdownPluginResult(life.active, k, outcome)
           rest == RemainingAfter(life.todo, k, r.ret)
       IN life' = [life EXCEPT !.pc = IF rest = {} THEN "stopped" ELSE "shutting",
                               !.active = r.active,
                               !.todo = rest,
                               !.invoked[k] = IF r.called THEN @ + 1 ELSE @,
                               !.failed = IF r.called /\ ~r.ret THEN @ \cup {k} ELSE @]
    /\ UNCHANGED <<coreVars, legacyVars, splitVars, chatVars, scanVars, genVars>>

\* ------------------------------------------------------------------------
\* Specifications
\* ------------------------------------------------------------------------
Init ==
    /\ InitRegistry /\ InitStore /\ InitEmbed /\ InitIngest
    /\ InitLegacy /\ InitSplit /\ InitChat
    /\ scans = 0
    /\ InitGen
    /\ InitLife

\* The plugin registry under concurrent callers.
Next ==
    \/ DiscoverPlugins
    \/ \E t \in Tasks, k \in Keys : GetPluginClass(t, k)
    \/ \E t \in Tasks, k \in Keys, kw \in Kwargs : InitializePlugin(t, k, kw)
    \/ \E t \in Tasks, k \in Keys, b \in BOOLEAN, kw \in Kwargs : GetPlugin(t, k, b, kw)
    \/ \E t \in Tasks, o \in HookOutcomes : InitializeResume(t, o)
    \/ \E t \in Tasks, k \in Keys : ShutdownPlugin(t, k)
    \/ \E t \in Tasks, o \in HookOutcomes : ShutdownResume(t, o)

Spec == Init /\ [][Next]_vars

\* The vector-store plugin under a sequence of calls.
StoreNext ==
    \/ \E ok \in BOOLEAN : StoreInitialize(ok)
    \/ StoreShutdown
    \/ \E chunks \in ChunkSeqs(MaxBatch), withMetas \in BOOLEAN, env \in BackendCases :
          \/ AddTexts(chunks, Len(chunks), withMetas, None, env[1], env[2])
          \/ \E ids \in [1..Len(chunks) -> ExplicitIds] :
                AddTexts(chunks, Len(chunks), withMetas, Some(ids), env[1], env[2])
    \/ \E chunks \in ChunkSeqs(MaxBatch) :
          AddTexts(chunks, Len(chunks) + 1, TRUE, None, 0, "raise")
    \/ \E id \in IdPool, fail \in BOOLEAN : Delete(<<id>>, None, fail)
    \/ \E m \in Metas, fail \in BOOLEAN : Delete(<<>>, Some(m), fail)
    \/ Delete(<<>>, None, FALSE)
    \/ \E fail \in BOOLEAN : ClearCollection(fail)
    \/ \E top_k \in 1..MaxTopK, order \in Orders, fail \in BOOLEAN :
          \/ Search(top_k, None, order, fail)
          \/ \E m \in Metas : Search(top_k, Some(m), order, fail)

StoreSpec == Init /\ [][StoreNext]_vars

\* The embedding plugin under a sequence of calls.
EmbedNext ==
    \/ \E ok \in BOOLEAN : EmbedInitialize(ok)
    \/ EmbedShutdown
    \/ \E texts \in TextSeqs(MaxTexts), dim \in ModelDims :
          \E fails \in SUBSET (1..Len(texts)) : EmbedDocumentsCall(texts, fails, dim)
    \/ \E text \in Texts, fail \in BOOLEAN, dim \in ModelDims : EmbedQueryCall(text, fail, dim)

EmbedSpec == Init /\ [][EmbedNext]_vars

\* One document going through process_document.
IngestNext ==
    \/ CreateDocument
    \/ \E ft \in FileTypes : ProcessStart(ft)
    \/ \E l \in LookupOutcomes : GetDocumentPlugin(l)
    \/ \E raises \in BOOLEAN, texts \in TextSeqs(MaxBatch), chapters \in ChapterLists,
          mc \in BOOLEAN : ParseDocument(raises, texts, chapters, mc)
    \/ \E o \in GraphOutcomes : AddToKnowledgeGraph(o)
    \/ \E vl, el \in LookupOutcomes, dim \in ModelDims, env \in BackendCases :
          \E fails \in SUBSET (1..Len(ing.texts)) :
             AddToVectorStore(vl, el, fails, dim, env[1], env[2])
    \/ ProcessCompleted
    \* the plugins the service uses are started, stopped and emptied by other requests
    \/ \E ok \in BOOLEAN : StoreInitialize(ok)
    \/ StoreShutdown
    \/ ClearCollection(FALSE)
    \/ \E ok \in BOOLEAN : EmbedInitialize(ok)
    \/ EmbedShutdown

IngestSpec == Init /\ [][IngestNext]_vars

\* Non-empty lists of up to n texts.
NonEmptyTextSeqs(n) == TextSeqs(n) \ {<<>>}

\* The legacy VectorStore over sessions that share the persistent collection.
LegacyNext ==
    \/ NewSession
    \/ \E text_chunks \in NonEmptyTextSeqs(MaxBatch), attempts \in AttemptSeqs,
          dupMode \in DupModes :
          \/ AddTextChunks(text_chunks, None, attempts, dupMode)
          \/ \E ids \in [1..Len(text_chunks) -> LegacyIds] :
                AddTextChunks(text_chunks, Some(ids), attempts, dupMode)
    \/ \E top_k \in 1..MaxTopK, order \in Orders, attempts \in AttemptSeqs :
          LegacySearch(top_k, order, attempts)
    \/ \E failAt \in ClearFailures : ClearAll(failAt)

LegacySpec == Init /\ [][LegacyNext]_vars

\* One split_text call on any text and any sizes.
SplitNext ==
    \/ SplitArgs
    \/ SplitTextCall

SplitSpec == Init /\ [][SplitNext]_vars

\* add_texts calls of more than one sub-batch on a store that is started,
\* stopped, searched and emptied in between.
BulkNext ==
    \/ \E ok \in BOOLEAN : StoreInitialize(ok)
    \/ StoreShutdown
    \/ \E n \in BulkSizes, failAt \in 0..(MaxBulkBatches + 1) : AddTextsBulk(n, failAt)
    \/ \E order \in Orders, fail \in BOOLEAN : Search(MaxTopK, None, order, fail)
    \/ ClearCollection(FALSE)

BulkSpec == Init /\ [][BulkNext]_vars

\* generate calls against a provider that answers or fails request by request.
GenNext ==
    \/ \E n \in GenSizes : Generate(n)
    \/ \E ok \in BOOLEAN : ProviderRequest(ok)

GenSpec == Init /\ [][GenNext]_vars

\* The plugin manager from the start of the application to the end of
\* shutdown_all.
LifeNext ==
    \/ \E k \in LifespanPlugins, o \in HookOutcomes : LifeInitializePlugin(k, o)
    \/ \E k \in LifespanPlugins, o \in HookOutcomes : LifeShutdownPlugin(k, o)
    \/ ShutdownAll
    \/ \E k \in LifespanPlugins, o \in HookOutcomes : ShutdownAllStep(k, o)

LifeSpec == Init /\ [][LifeNext]_vars

\* Chat queries while the plugins they use are started, stopped and filled
\* by other requests.
ChatNext ==
    \/ ProcessQuery
    \/ \E query \in Texts, embLookup, vsLookup \in LookupOutcomes, embedFails \in BOOLEAN,
          dim \in ModelDims, order \in Orders, searchFails \in BOOLEAN :
          GetContext(query, embLookup, vsLookup, embedFails, dim, order, searchFails)
    \/ \E found \in BOOLEAN, llmLookup \in LookupOutcomes, llm \in LlmOutcomes :
          Respond(found, llmLookup, llm)
    \/ \E ok \in BOOLEAN : StoreInitialize(ok)
    \/ StoreShutdown
    \/ \E chunks \in ChunkSeqs(MaxBatch) :
          AddTexts(chunks, Len(chunks), TRUE, None, 0, "raise")
    \/ \E ok \in BOOLEAN : EmbedInitialize(ok)
    \/ EmbedShutdown

ChatSpec == Init /\ [][ChatNext]_vars

\* ------------------------------------------------------------------------
\* Plugin registry: properties
\* ------------------------------------------------------------------------
RegistryCalls == {"get_plugin", "initialize_plugin"}

\* The step in which a get_plugin or initialize_plugin call hands an
\* instance to its caller.
InstanceReturned ==
    /\ last' # last
    /\ last'.kind = "return"
    /\ last'.op \in RegistryCalls

\* Instances of key k whose initialize hook failed.
FailedInsts(k) == { i \in 1..Len(insts) : insts[i].key = k /\ insts[i].init = "failed" }

\* Shape of the registry state.
TypeOK ==
    /\ plugins \subseteq Keys
    /\ \A k \in Keys : active[k] \in 0..Len(insts)
    /\ \A k \in Keys : returned[k] # {} => IsActive(k)
    /\ shutTrue \subseteq shutCalled

\* C1: between two shutdown calls of a key, every caller of get_plugin or
\* initialize_plugin for that key receives the same instance, whatever the
\* interleaving of the calls.
C1_SingleInstancePerKey ==
    \A k \in Keys : Cardinality(returned[k]) <= 1

\* C2: once a call has returned an instance for a key, every later get_plugin
\* or initialize_plugin call for the key (no shutdown in between) returns that
\* same instance and constructs nothing.
C2_LaterCallsReturnSameInstance ==
    (last.kind = "return" /\ last.op \in RegistryCalls /\ last.seen # {})
        => (last.seen = {last.val} /\ last.built = NoInst)

\* C3: when the initialize hook returns False or raises, initialize_plugin ends
\* with an error and leaves the active set as it was (neither of its two steps
\* changes it), the failed instance never becomes active, and an instance handed
\* to a caller afterwards is one whose own initialize hook has succeeded: a
\* call that constructs builds a fresh instance, never a failed one.
C3_FailedInitNotRegistered ==
    /\ [](\A k \in Keys : \A i \in FailedInsts(k) : \A k2 \in Keys : active[k2] # i)
    /\ [][\A t \in Tasks :
            /\ (task[t].pc = "idle" /\ task'[t].pc = "init_hook")
                   => /\ active' = active
                      /\ task'[t].inst \notin 1..Len(insts)
                      /\ insts'[task'[t].inst].init = "pending"
            /\ (task[t].pc = "init_hook" /\ task'[t].pc = "idle"
                   /\ insts'[task[t].inst].init = "failed")
                   => /\ active' = active
                      /\ last'.kind = "raise"
                      /\ last'.built = task[t].inst]_vars
    /\ [][InstanceReturned => insts'[last'.val].init = "ok"]_vars

\* C3 witness: after a failed initialization of a key, a later call constructed
\* a second instance of the key, ran its hook and returned it.
C3_Witness ==
    /\ last.kind = "return"
    /\ last.op = "get_plugin"
    /\ last.built # NoInst
    /\ \E i \in FailedInsts(last.key) : i < last.built

\* C7 as stated: once shutdown_plugin has invoked the shutdown hook of a plugin
\* and returned, the plugin is not in the active set.
C7_ShutdownAlwaysRemoves ==
    \A p \in shutCalled : \A k \in Keys : active[k] # p

\* C7 amended: once shutdown_plugin has invoked the shutdown hook of a plugin,
\* the hook has returned True and shutdown_plugin has returned, the plugin is
\* not in the active set.
C7_ShutdownTrueRemoves ==
    \A p \in shutTrue : \A k \in Keys : active[k] # p

\* C7 witness: a shutdown_plugin call whose hook returned True has just returned True.
C7_Witness ==
    /\ last.op = "shutdown_plugin"
    /\ last.kind = "return"
    /\ last.val = TRUE
    /\ shutTrue # {}

\* C8: after shutdown_plugin removed a plugin, a get_plugin call that finds the
\* key inactive constructs a new instance, and whatever get_plugin returns is not
\* a shut-down instance and has had its initialize hook run successfully.
C8_ReinitializedAfterShutdown ==
    /\ [][\A t \in Tasks :
            (task[t].pc = "idle" /\ task'[t].pc = "init_hook")
                => /\ ~IsActive(task'[t].key)
                   /\ task'[t].inst \notin shutCalled
                   /\ Len(insts') = Len(insts) + 1]_vars
    /\ [][InstanceReturned =>
            /\ last'.val \notin shutTrue
            /\ last'.val \notin shutTrue'
            /\ insts'[last'.val].init = "ok"
            /\ (~IsActive(last'.key) => last'.built = last'.val)]_vars

\* C8 witness: a get_plugin call returned an instance it constructed for a key
\* one of whose earlier instances had been shut down and removed.
C8_Witness ==
    /\ last.op = "get_plugin"
    /\ last.kind = "return"
    /\ last.built # NoInst
    /\ \E p \in shutTrue : insts[p].key = last.key /\ p # last.val

\* C9: a call on an unregistered key fails with PluginNotFoundError, and a
\* failed initialize hook surfaces as PluginInitializationError.
C9_DocumentedErrorKinds ==
    last.kind = "raise" =>
        IF last.built = NoInst
        THEN last.exc = "PluginNotFoundError"
        ELSE last.exc = "PluginInitializationError"

\* ------------------------------------------------------------------------
\* Vector store, embedding and ingestion: properties
\* ------------------------------------------------------------------------
\* ChromaDB keeps the ids of a collection distinct.
StoreTypeOK ==
    /\ \A i, j \in 1..Len(coll) : i # j => coll[i].id # coll[j].id
    /\ Len(coll) <= MaxColl

\* An add_texts call with generated ids that the backend did not interrupt.
GeneratedAdd ==
    /\ storeLast.op = "add_texts"
    /\ storeLast.ready
    /\ storeInit
    /\ ~storeLast.explicit
    /\ ~storeLast.fault
    /\ storeLast.kind = "return"
    /\ storeLast.texts # <<>>

\* C5: add_texts without explicit ids returns ids for which get returns
\* exactly the texts and metadatas just added.
C5_AddGetRoundTrip ==
    GeneratedAdd =>
        LET got == GetResult(coll, storeLast.ret, None)
        IN /\ Documents(got) = storeLast.texts
           /\ Metadatas(got) = storeLast.metas

\* C6: the ids add_texts generates differ from the id of every chunk already
\* stored, after any sequence of add_texts without explicit ids and delete.
C6_GeneratedIdsFresh ==
    (GeneratedAdd /\ ~everExplicit) =>
        LET gen == GenerateIds(Cardinality(storeLast.pre), Len(storeLast.texts))
        IN \A i \in 1..Len(gen) : gen[i] \notin storeLast.pre

\* C10: a batch in which the embedding of one text failed ends with an error:
\* embed_documents returns no result, and so none with a zero vector in it.
C10_BatchAbortsOnFailure ==
    (embLast.op = "embed_documents" /\ embLast.fails # {}) =>
        /\ embLast.kind = "raise"
        /\ \A i \in 1..Len(embLast.vecs) : ~embLast.vecs[i].zero

\* C4: when embed_documents raised, or add_texts raised or stored nothing, the
\* process_document call ends with status FAILED and a message.
C4_VectorFailureMarksFailed ==
    (ing.pc = "done" /\ ing.vs \in {"embed_raised", "add_raised", "add_empty"}) =>
        /\ doc.status = "failed"
        /\ doc.message # ""

\* C11: an embed_documents call that returns normally returns one vector per
\* text, the vector at position i being the one of text i, and all vectors of
\* the result have the same length, also when provider calls failed.
C11_BatchShape ==
    (embLast.op = "embed_documents" /\ embLast.kind = "return") =>
        /\ Len(embLast.vecs) = Len(embLast.texts)
        /\ \A i \in 1..Len(embLast.vecs) :
              i \notin embLast.fails => embLast.vecs[i].text = embLast.texts[i]
        /\ \A i, j \in 1..Len(embLast.vecs) : embLast.vecs[i].dim = embLast.vecs[j].dim

\* Shape of the legacy store: ids are unique in the collection, and the index
\* holds only vectors of the working dimension.
LegacyTypeOK ==
    /\ \A i, j \in 1..Len(collection) : i # j => collection[i].id # collection[j].id
    /\ \A i \in 1..Len(index) : index[i].dim = dimension
    /\ Len(collection) <= MaxColl
    /\ Len(index) <= MaxColl

\* C12: an embedding response whose vectors have another length than the
\* working dimension of the session is rejected: the call that received it
\* ends with an error and has written nothing to the collection.
C12_MismatchRejected ==
    (legacyLast.embDim # 0 /\ legacyLast.embDim # dimension) =>
        /\ legacyLast.kind = "raise"
        /\ legacyLast.stored = <<>>

\* The call of split_text has returned.
SplitDone == splitResult.kind = "return"

\* C13: for a normalized text longer than chunk_size and overlap < chunk_size,
\* the chunks are the slices the loop cut, the first starts at 0, the last
\* ends at the end of the text, and each chunk starts at most overlap
\* characters before, and never after, the end of the chunk before it.
C13_ContiguousBoundedOverlap ==
    (/\ SplitDone
     /\ Len(splitResult.normalized) > splitArgs.chunk_size
     /\ splitArgs.overlap < splitArgs.chunk_size) =>
        LET T == splitResult.normalized
            sp == splitResult.spans
            s(i) == sp[i].start
            e(i) == Min(sp[i].end, Len(T))
        IN /\ Len(sp) >= 1
           /\ Len(splitResult.chunks) = Len(sp)
           /\ \A i \in 1..Len(sp) : splitResult.chunks[i] = SubSeq(T, s(i) + 1, e(i))
           /\ s(1) = 0
           /\ e(Len(sp)) = Len(T)
           /\ \A i \in 1..(Len(sp) - 1) :
                 /\ 0 <= e(i) - s(i + 1)
                 /\ e(i) - s(i + 1) <= splitArgs.overlap

\* C13 witness: a text cut into three chunks or more, one of them at a separator.
C13_Witness ==
    /\ SplitDone
    /\ Len(splitResult.normalized) > splitArgs.chunk_size
    /\ splitArgs.overlap < splitArgs.chunk_size
    /\ splitArgs.overlap > 0
    /\ Len(splitResult.spans) >= 3
    /\ \E i \in 1..Len(splitResult.spans) :
          splitResult.spans[i].end # splitResult.spans[i].start + splitArgs.chunk_size

\* C14: no chunk has more than chunk_size characters.
C14_ChunkAtMostChunkSize ==
    SplitDone =>
        \A i \in 1..Len(splitResult.chunks) :
           Len(splitResult.chunks[i]) <= splitArgs.chunk_size

\* C15: a normalized text of at most chunk_size characters, the empty text
\* included, is returned as the one-element list of that text.
C15_ShortTextSingleChunk ==
    (SplitDone /\ Len(NormalizeText(splitArgs.text)) <= splitArgs.chunk_size) =>
        splitResult.chunks = <<NormalizeText(splitArgs.text)>>

\* C15 witness: a text of exactly chunk_size characters, with an overlap.
C15_Witness ==
    /\ SplitDone
    /\ Len(NormalizeText(splitArgs.text)) = splitArgs.chunk_size
    /\ splitArgs.overlap > 0
    /\ splitResult.chunks = <<NormalizeText(splitArgs.text)>>

\* C16: a call with chunk_size <= overlap on a text longer than chunk_size
\* does not return a list of chunks.
C16_OverlapNotBelowChunkSizeRejected ==
    (/\ splitArgs.given
     /\ splitArgs.chunk_size <= splitArgs.overlap
     /\ Len(NormalizeText(splitArgs.text)) > splitArgs.chunk_size) =>
        splitResult.kind # "return"

\* C17: a search for top_k results returns at most top_k of them, in
\* ChromaVectorStore.search and in both paths of the legacy VectorStore.search.
C17_AtMostTopK ==
    /\ storeLast.op = "search" => Len(storeLast.ret) <= storeLast.topK
    /\ (legacyLast.op = "search" /\ legacyLast.kind = "return") =>
           Len(legacyLast.ret) <= legacyLast.topK

\* The backend search alone keeps to top_k, also when the collection holds more.
SearchAtMostTopK ==
    storeLast.op = "search" => Len(storeLast.ret) <= storeLast.topK

\* _get_context returns the empty list, and does not raise, when a plugin
\* lookup, embed_query or search failed.
ContextFailureGivesEmptyList ==
    chat.failure # "none" => (chat.context = <<>> /\ chat.pc \in {"respond", "done"})

\* C18: when the embedding or vector-store step of a chat query failed,
\* _get_context returns the empty list without raising, and process_query
\* goes on to call the LLM; the response built from its answer has no
\* context source.
C18_ContextFailureDegrades ==
    /\ ContextFailureGivesEmptyList
    /\ (chat.pc = "done" /\ chat.failure # "none") =>
          /\ chat.llm # "not_called"
          /\ chat.llm = "answered" =>
                (chat.response.kind = "answer" /\ chat.response.sources = <<>>)

\* C19: a process_document call whose knowledge-graph step failed (plugin
\* unavailable, add_book or add_chapters raising) still runs the vector-store
\* step, and ends with status COMPLETED when that step stored the chunks.
C19_GraphFailureDoesNotFailIngestion ==
    (ing.pc = "done" /\ ing.kg \in GraphOutcomes \ {"ok"}) =>
        /\ ing.vs # "none"
        /\ ing.vs \in {"stored", "nothing_to_add"} =>
              (doc.status = "completed" /\ ing.result = "document")

\* A call ended COMPLETED after its knowledge-graph step failed and its
\* vector-store step stored the chunks.
C19_Witness ==
    /\ ing.pc = "done"
    /\ ing.kg \in GraphOutcomes \ {"ok"}
    /\ ing.vs = "stored"
    /\ doc.status = "completed"

\* C20: every chunk a process_document call wrote to the vector store carries
\* the document_id, a chunk_index that is its position in the chunk list, and,
\* when the handler reported at least one chapter, the title of one of the
\* reported chapters and not the empty chapter.
C20_ChunksTagged ==
    ing.pc \in {"complete", "done"} =>
        \A i \in 1..Len(ing.written) :
            LET m == ing.written[i].meta
            IN /\ m.document_id = DocumentId
               /\ m.chunk_index \in 0..(Len(ing.texts) - 1)
               /\ ing.texts[m.chunk_index + 1] = ing.written[i].text
               /\ Len(ing.written) = Len(ing.texts) => m.chunk_index = i - 1
               /\ ing.chapters # <<>> =>
                     \E c \in 1..Len(ing.chapters) : m.chapter = ing.chapters[c]

\* The document_id and chunk_index part of C20 alone.
ChunksCarryDocumentAndIndex ==
    ing.pc \in {"complete", "done"} =>
        \A i \in 1..Len(ing.written) :
            LET m == ing.written[i].meta
            IN /\ m.document_id = DocumentId
               /\ m.chunk_index \in 0..(Len(ing.texts) - 1)
               /\ ing.texts[m.chunk_index + 1] = ing.written[i].text
               /\ Len(ing.written) = Len(ing.texts) => m.chunk_index = i - 1

\* The chunks of the latest add_texts call that are in the collection.
PresentOfLastAdd == IdsOf(coll) \ storeLast.pre

\* C21: in every state a search can observe after an add_texts call, none or
\* all of the chunks passed to that call are in the collection.
C21_NoneOrAllVisible ==
    (storeLast.op = "add_texts" /\ storeLast.kind = "return") =>
        Cardinality(PresentOfLastAdd) \in {0, Len(storeLast.texts)}

\* C28: an add_texts call that failed at a sub-batch after the first returns
\* the empty list, and the chunks of the sub-batches before it are in the
\* collection, whose count has grown by their number.
C28_EarlierBatchesStay ==
    (storeLast.op = "add_texts" /\ storeLast.ready /\ storeLast.failAt > 1) =>
        /\ storeLast.ret = <<>>
        /\ Len(coll) = Cardinality(storeLast.pre) + (storeLast.failAt - 1) * BatchSize
        /\ \A i \in 1..((storeLast.failAt - 1) * BatchSize) :
              /\ Str(Cardinality(storeLast.pre) + i - 1) \in PresentOfLastAdd
              /\ coll[Cardinality(storeLast.pre) + i].text = storeLast.texts[i]

\* A call of more than BatchSize texts failed at its second sub-batch on a
\* started store and left the first sub-batch behind.
C28_Witness ==
    /\ storeLast.op = "add_texts"
    /\ storeLast.ready
    /\ storeLast.failAt = 2
    /\ Len(storeLast.texts) > BatchSize
    /\ storeLast.ret = <<>>
    /\ Len(coll) >= BatchSize

\* C22: a discover_plugins run after the first leaves the set of registered
\* (plugin_type, plugin_name) descriptors as the first run left it, and no
\* run changes the active instances.
C22_DiscoverIdempotent ==
    [][(scans' = scans + 1) =>
          /\ active' = active
          /\ insts' = insts
          /\ scans >= 1 => (plugins' = plugins /\ plugins' = PluginFiles)]_vars

\* discover_plugins has run a second time while a plugin was active.
C22_Witness ==
    /\ scans >= 2
    /\ plugins = PluginFiles
    /\ \E k \in Keys : IsActive(k)

\* C23: during one generate call a sub-batch is requested again only after a
\* request for that sub-batch failed (an embedded sub-batch is not requested
\* again), no sub-batch is requested more than GenAttempts times, and the
\* call ends with an error once a sub-batch has failed GenAttempts times.
C23_OnlyFailedBatchRetried ==
    \A b \in DOMAIN genCall.requested :
        /\ genCall.requested[b] <= genCall.failed[b] + 1
        /\ genCall.requested[b] <= GenAttempts
        /\ genCall.failed[b] = GenAttempts => (genCall.pc = "done" /\ genCall.result = "raise")

\* The attempts of one generate call are at most GenAttempts, and the call
\* ends with an error when the last of them failed.
GenerateAttemptsBounded ==
    /\ genCall.attempt <= GenAttempts
    /\ genCall.result = "raise" =>
          (genCall.attempt = GenAttempts /\ SumSeq(genCall.failed) = GenAttempts)

\* C24: every result of the refined path of the legacy search is the chunk
\* whose vector is at the index position the exact search reported: the
\* position is mapped to the id of the vector added at that position.
C24_RefinedResultIsIndexedChunk ==
    (legacyLast.op = "search" /\ legacyLast.path = "refined") =>
        \A i \in 1..Len(legacyLast.ret) :
            /\ legacyLast.ret[i].id = index[legacyLast.indices[i]].id
            /\ legacyLast.ret[i].text = index[legacyLast.indices[i]].text

\* C29: in the legacy VectorStore the local index never holds more vectors
\* than the persistent collection holds chunks, whatever add_text_chunks and
\* clear_all calls were made and however they ended.
C29_IndexWithinCollection == Len(index) <= Len(collection)

NoSeparator(text) == \A k \in 1..Len(Separators) : RFind(text, Separators[k]) = -1

\* ceil(a / b) for b > 0
CeilDiv(a, b) == (a + b - 1) \div b

\* C26: a normalized text of L > chunk_size characters without separators,
\* split with overlap < chunk_size, gives ceil((L - overlap) / (chunk_size -
\* overlap)) chunks, and no chunk lies inside the chunk before it.
C26_ChunkCount ==
    (/\ SplitDone
     /\ NoSeparator(splitResult.normalized)
     /\ Len(splitResult.normalized) > splitArgs.chunk_size
     /\ splitArgs.overlap < splitArgs.chunk_size) =>
        LET L == Len(splitResult.normalized)
            sp == splitResult.spans
        IN /\ Len(splitResult.chunks)
                 = CeilDiv(L - splitArgs.overlap, splitArgs.chunk_size - splitArgs.overlap)
           /\ \A i \in 2..Len(sp) : Min(sp[i].end, L) > Min(sp[i - 1].end, L)

\* C27: a process_document call on an existing record has written PROCESSING
\* while it runs and has written COMPLETED or FAILED when it has ended,
\* whichever step raised; a call on a missing record returns None and writes
\* no status.
C27_EndsCompletedOrFailed ==
    /\ ing.pc \in {"handler", "parse", "graph", "vector", "complete"} =>
          doc.status = "processing"
    /\ ing.pc = "done" =>
          IF doc.status \in {"absent", "pending"}
          THEN \* the record was missing when the call was made
               ing.result = "None" /\ doc.message = "" /\ doc.meta = None
          ELSE /\ doc.status \in {"completed", "failed"}
               /\ doc.status = "completed" <=> ing.result = "document"
               /\ doc.status = "failed" <=> ing.result = "None"
               /\ doc.message # ""

\* A call on an existing record ended FAILED because a step raised.
C27_Witness ==
    /\ ing.pc = "done"
    /\ doc.status = "failed"
    /\ ing.result = "None"

\* C30: when shutdown_all has ended, the shutdown hook of every plugin that
\* was active when it was called has been invoked exactly once and no other
\* hook has been; the plugins whose hook raised or returned False, and only
\* they, are still active.
C30_ShutdownAllReachesEveryPlugin ==
    life.pc = "stopped" =>
        /\ \A k \in LifespanPlugins :
              life.invoked[k] = IF k \in life.atCall THEN 1 ELSE 0
        /\ life.todo = {}
        /\ life.active = life.failed

\* shutdown_all has ended after one hook failed and other plugins were shut down.
C30_Witness ==
    /\ life.pc = "stopped"
    /\ Cardinality(life.failed) = 1
    /\ Cardinality(life.atCall) >= 3
    /\ life.active = life.failed

====
